---- MODULE Spec2Model ----
(***************************************************************************)
(* A model of the flowweave scheduling and execution engine                *)
(* (src/flowweave/flowweave.py): FlowWeave.run, run_flow, _run_stage,      *)
(* _run_task, _submit_task and TaskRunner.start, with the two thread pools *)
(* the run creates.                                                        *)
(***************************************************************************)
EXTENDS Integers, Sequences, FiniteSets, TLC

(***************************************************************************)
(* Bounds of the model.                                                    *)
(***************************************************************************)
\* The task pool is modelled with 1..MaxWorkers worker threads.
MaxWorkers == 2
\* os.cpu_count() ranges over 1..MaxCpu (the size of the flow pool).
MaxCpu == 2
MaxCandidates == 2

(***************************************************************************)
(* FlowWeaveResult (base.py).                                              *)
(***************************************************************************)
FAIL == 0
SUCCESS == 1
IGNORE == 2
\* No result record (a future that is not resolved, or that raised).
NoResult == -1

\* Python's None, for do_only, the returned data and a missing global_option.
None == "None"

(***************************************************************************)
(* The task classes the operation dictionary resolves to.  A task class is *)
(* a subclass of FlowWeaveTask: its constructor takes the predecessor      *)
(* record, and calling the instance returns (result, return_data) or       *)
(* raises.  ctor_raises: constructing the instance (or injecting the       *)
(* options into it) raises; raises: the call raises; results: the results  *)
(* the call may return, each with some returned data.                      *)
(***************************************************************************)
TaskClasses ==
  [ OkTask      |-> [ctor_raises |-> FALSE, raises |-> FALSE, results |-> {SUCCESS}],
    FailTask    |-> [ctor_raises |-> FALSE, raises |-> FALSE, results |-> {FAIL}],
    IgnoreTask  |-> [ctor_raises |-> FALSE, raises |-> FALSE, results |-> {IGNORE}],
    RaisingTask |-> [ctor_raises |-> FALSE, raises |-> TRUE,  results |-> {}],
    BadCtorTask |-> [ctor_raises |-> TRUE,  raises |-> FALSE, results |-> {SUCCESS}],
    AnyTask     |-> [ctor_raises |-> FALSE, raises |-> FALSE, results |-> {SUCCESS, FAIL}],
    \* a handler whose result is decided by its option x (FAIL when x is "2")
    OptionTask  |-> [ctor_raises |-> FALSE, raises |-> FALSE, results |-> {SUCCESS, FAIL}] ]

\* get_op_dic: operation code -> task class.
op_dic ==
  [ ok      |-> "OkTask",
    fail    |-> "FailTask",
    ign     |-> "IgnoreTask",
    boom    |-> "RaisingTask",
    badctor |-> "BadCtorTask",
    any     |-> "AnyTask",
    opt     |-> "OptionTask" ]

(***************************************************************************)
(* Flow descriptions.  A stage_info keeps the order of its tasks (a Python *)
(* dict is ordered) in `order` and the task dictionaries in `dic`.         *)
(***************************************************************************)
Task(op, part, next, do_only) ==
  [op |-> op, part |-> part, next |-> next, do_only |-> do_only]

StageCatalog ==
  [ ok1      |-> [order |-> <<"A">>,
                  dic |-> [A |-> Task("ok", "head", <<>>, None)]],
    fail1    |-> [order |-> <<"A">>,
                  dic |-> [A |-> Task("fail", "head", <<>>, None)]],
    \* a head that carries a gating mode
    headgate |-> [order |-> <<"A", "B">>,
                  dic |-> [A |-> Task("ok", "head", <<>>, "pre_success"),
                           B |-> Task("ok", None, <<>>, "pre_fail")]],
    \* A -> B -> C, gated
    chain    |-> [order |-> <<"A", "B", "C">>,
                  dic |-> [A |-> Task("any", "head", <<"B">>, None),
                           B |-> Task("any", "link", <<"C">>, "pre_success"),
                           C |-> Task("ok", "link", <<>>, "pre_fail")]],
    \* A -> {B, C, D}: the three gating modes after the same predecessor
    gates    |-> [order |-> <<"A", "B", "C", "D">>,
                  dic |-> [A |-> Task("any", "head", <<"B", "C", "D">>, None),
                           B |-> Task("ok", "link", <<>>, "pre_success"),
                           C |-> Task("ok", "link", <<>>, "pre_fail"),
                           D |-> Task("fail", "link", <<>>, None)]],
    \* the same after a predecessor whose own result is IGNORE
    gatesign |-> [order |-> <<"A", "B", "C", "D">>,
                  dic |-> [A |-> Task("ign", "head", <<"B", "C", "D">>, None),
                           B |-> Task("ok", "link", <<>>, "pre_success"),
                           C |-> Task("ok", "link", <<>>, "pre_fail"),
                           D |-> Task("ok", "link", <<>>, None)]],
    \* a failing head, its gated successors, the last one after an IGNORE
    failchain |-> [order |-> <<"A", "B", "C">>,
                  dic |-> [A |-> Task("fail", "head", <<"B">>, None),
                           B |-> Task("ok", "link", <<"C">>, "pre_success"),
                           C |-> Task("ok", "link", <<>>, "pre_fail")]],
    \* two independent chains, the first one with a raising handler
    indep    |-> [order |-> <<"A", "B", "C", "D">>,
                  dic |-> [A |-> Task("boom", "head", <<"B">>, None),
                           B |-> Task("ok", "link", <<>>, "pre_fail"),
                           C |-> Task("ok", "head", <<"D">>, None),
                           D |-> Task("ok", "link", <<>>, None)]],
    \* a handler whose construction raises, with a successor
    badctor  |-> [order |-> <<"A", "B", "C">>,
                  dic |-> [A |-> Task("badctor", "head", <<"B">>, None),
                           B |-> Task("ok", "link", <<>>, None),
                           C |-> Task("ok", "head", <<>>, None)]],
    \* a handler whose construction raises, followed by the three gating
    \* modes and by a successor's successor
    badchain |-> [order |-> <<"A", "B", "C", "D", "E">>,
                  dic |-> [A |-> Task("badctor", "head", <<"B", "C", "D">>, None),
                           B |-> Task("ok", "link", <<"E">>, "pre_success"),
                           C |-> Task("ok", "link", <<>>, "pre_fail"),
                           D |-> Task("ok", "link", <<>>, None),
                           E |-> Task("ok", "link", <<>>, None)]],
    \* a gated successor whose construction raises
    badgate  |-> [order |-> <<"A", "B", "C">>,
                  dic |-> [A |-> Task("ok", "head", <<"B", "C">>, None),
                           B |-> Task("badctor", "link", <<>>, "pre_success"),
                           C |-> Task("badctor", "link", <<>>, None)]],
    \* A -> B -> A
    cycle    |-> [order |-> <<"A", "B">>,
                  dic |-> [A |-> Task("ok", "head", <<"B">>, None),
                           B |-> Task("ok", "link", <<"A">>, None)]],
    \* A -> B, A -> C, B -> D, C -> D
    diamond  |-> [order |-> <<"A", "B", "C", "D">>,
                  dic |-> [A |-> Task("ok", "head", <<"B", "C">>, None),
                           B |-> Task("ok", "link", <<"D">>, None),
                           C |-> Task("ok", "link", <<"D">>, None),
                           D |-> Task("ok", "link", <<>>, None)]],
    \* an operation code the operation dictionary does not hold
    missingop |-> [order |-> <<"A", "B">>,
                  dic |-> [A |-> Task("ok", "head", <<"B">>, None),
                           B |-> Task("nope", "link", <<>>, None)]],
    \* a next link naming no task of the stage
    badlink  |-> [order |-> <<"A">>,
                  dic |-> [A |-> Task("ok", "head", <<"Z">>, None)]],
    \* one task whose result depends on the option of the combination
    opt1     |-> [order |-> <<"A">>,
                  dic |-> [A |-> Task("opt", "head", <<>>, None)]],
    \* B is neither a head nor the target of a link
    unreach  |-> [order |-> <<"A", "B">>,
                  dic |-> [A |-> Task("ok", "head", <<>>, None),
                           B |-> Task("fail", "link", <<>>, None)]] ]

\* flow_data["global_option"]: stage group -> option -> candidates, each
\* mapping as the sequence of its (key, value) pairs in dict order; <<>> is
\* an absent (or empty) global_option.
NoGlobalOption == <<>>
TwoCombinations ==
  << <<"ok1", << <<"x", <<"1", "2">> >>, <<"y", <<"a">> >> >> >> >>

\* Two combinations that give stage opt1 the option x = "1", then x = "2".
OptionCombinations == << <<"opt1", << <<"x", <<"1", "2">> >> >> >> >>

FlowData(flow, go) == [flow |-> flow, global_option |-> go]

\* The flow descriptions (flow_data) the model runs.
FlowDatas ==
  { FlowData(<<"ok1">>, NoGlobalOption),
    FlowData(<<"fail1">>, NoGlobalOption),
    FlowData(<<"ok1", "fail1", "ok1">>, NoGlobalOption),
    FlowData(<<"ok1", "headgate">>, NoGlobalOption),
    FlowData(<<"chain">>, NoGlobalOption),
    FlowData(<<"gates", "ok1">>, NoGlobalOption),
    FlowData(<<"gatesign">>, NoGlobalOption),
    FlowData(<<"failchain", "ok1">>, NoGlobalOption),
    FlowData(<<"indep", "ok1">>, NoGlobalOption),
    FlowData(<<"badctor", "ok1">>, NoGlobalOption),
    FlowData(<<"badgate">>, NoGlobalOption),
    FlowData(<<"badchain", "ok1">>, NoGlobalOption),
    FlowData(<<"cycle", "ok1">>, NoGlobalOption),
    FlowData(<<"ok1", "cycle">>, NoGlobalOption),
    FlowData(<<"diamond">>, NoGlobalOption),
    FlowData(<<"missingop">>, NoGlobalOption),
    FlowData(<<"badlink">>, NoGlobalOption),
    FlowData(<<"unreach", "chain">>, NoGlobalOption),
    FlowData(<<"ok1">>, TwoCombinations),
    FlowData(<<"ok1", "fail1", "ok1">>, TwoCombinations),
    FlowData(<<"failchain", "ok1">>, TwoCombinations),
    FlowData(<<"cycle", "ok1">>, TwoCombinations),
    FlowData(<<"chain">>, TwoCombinations),
    FlowData(<<"opt1">>, OptionCombinations) }

\* Global option specifications for the combination expander alone: none,
\* one or two groups, each of no, one or two option keys, each key with a list
\* of 0..MaxCandidates candidate values.
CandidateValues == <<"1", "2", "3", "4">>
CandidateLists == {SubSeq(CandidateValues, 1, n) : n \in 0..MaxCandidates}
OptionSpecs ==
  {<<>>} \cup {<< <<"x", v>> >> : v \in CandidateLists}
         \cup {<< <<"x", v>>, <<"y", w>> >> : v, w \in CandidateLists}
GlobalOptions ==
  {NoGlobalOption, TwoCombinations}
    \cup {<< <<"ok1", d>> >> : d \in OptionSpecs}
    \cup {<< <<"ok1", d>>, <<"fail1", e>> >> : d, e \in OptionSpecs}

(***************************************************************************)
(* Combination Expander.                                                   *)
(***************************************************************************)
RECURSIVE concat(_)
concat(lists) ==
  IF lists = <<>> THEN <<>> ELSE Head(lists) \o concat(Tail(lists))

\* Mutant of product: the first list varies fastest.
RECURSIVE product_first_fastest(_)
product_first_fastest(lists) ==
  IF lists = <<>> THEN << <<>> >>
  ELSE LET rest == product_first_fastest(Tail(lists))
       IN concat([j \in 1..Len(rest) |->
                    [i \in 1..Len(Head(lists)) |-> <<Head(lists)[i]>> \o rest[j]]])

\* itertools.product(*lists): the last list varies fastest.
RECURSIVE product(_)
product(lists) ==
  IF lists = <<>> THEN << <<>> >>
  ELSE LET rest == product(Tail(lists))
       IN concat([i \in 1..Len(Head(lists)) |->
                    [j \in 1..Len(rest) |-> <<Head(lists)[i]>> \o rest[j]]])

\* dict(zip(keys, values)), as the sequence of its (key, value) pairs.
zip(keys, values) == [i \in 1..Len(keys) |-> <<keys[i], values[i]>>]

dict_keys(d) == [i \in 1..Len(d) |-> d[i][1]]
dict_values(d) == [i \in 1..Len(d) |-> d[i][2]]

_get_global_option_comb(go) ==
  LET keys == dict_keys(go)
      value_lists ==
        [g \in 1..Len(go) |->
           LET inner_dict == go[g][2]
               prod == product(dict_values(inner_dict))
           IN [k \in 1..Len(prod) |-> zip(dict_keys(inner_dict), prod[k])]]
      combos == product(value_lists)
  IN [k \in 1..Len(combos) |-> zip(keys, combos[k])]

\* _get_stage_global_option: the options of the groups of the combination
\* that name the stage, a later group after an earlier one (a group key is
\* taken to name one stage).
RECURSIVE _get_stage_global_option(_, _)
_get_stage_global_option(global_cmb, stage) ==
  IF global_cmb = <<>> THEN <<>>
  ELSE (IF Head(global_cmb)[1] = stage THEN Head(global_cmb)[2] ELSE <<>>)
         \o _get_stage_global_option(Tail(global_cmb), stage)

\* The value the option gives to key, None without it; the last value given
\* to the key is the one that holds (dict |= option).
option_get(option, key) ==
  IF \E i \in 1..Len(option) : option[i][1] = key
  THEN option[CHOOSE i \in 1..Len(option) :
                /\ option[i][1] = key
                /\ \A j \in (i + 1)..Len(option) : option[j][1] # key][2]
  ELSE None

\* FlowWeave.run, the combination list: one empty combination when the
\* global option specification is absent or empty.
run_comb_list(go) == IF go # NoGlobalOption THEN _get_global_option_comb(go) ELSE << <<>> >>

(***************************************************************************)
(* Option Merger.  A dict is the sequence of its items in insertion order. *)
(* A value carries its Python type t; s is the value of a scalar, v the    *)
(* items of a list or of a mapping; k is the key under which a dict holds  *)
(* the value ("" for a value that is not an item of a dict).               *)
(***************************************************************************)
Scalar(s) == [k |-> "", t |-> "scalar", s |-> s, v |-> <<>>]
List(items) == [k |-> "", t |-> "list", s |-> "", v |-> items]
Mapping(d) == [k |-> "", t |-> "dict", s |-> "", v |-> d]
Item(key, value) == [value EXCEPT !.k = key]
Value(item) == [item EXCEPT !.k = ""]

\* k in d, and d[k].
has_key(d, k) == \E i \in 1..Len(d) : d[i].k = k
key_index(d, k) == CHOOSE i \in 1..Len(d) : d[i].k = k
dict_get(d, k) == Value(d[key_index(d, k)])

RECURSIVE _deep_merge(_, _)
RECURSIVE _merge_to_list(_, _)
RECURSIVE merge_value(_, _)
RECURSIVE merge_list_item(_, _)
RECURSIVE merge_list_items(_, _)

\* Mutant of merge_value: on two scalars the value of the base wins.
merge_value_keep_base(av, v) ==
  IF av.t = "dict" /\ v.t = "dict" THEN Mapping(_deep_merge(av.v, v.v))
  ELSE IF av.t = "list" \/ v.t = "list" THEN List(_merge_to_list(av, v))
  ELSE av

\* _deep_merge, the value of a key that both dicts hold: two mappings are
\* merged, a list on either side makes a list, otherwise the value of b.
merge_value(av, v) ==
  IF av.t = "dict" /\ v.t = "dict" THEN Mapping(_deep_merge(av.v, v.v))
  ELSE IF av.t = "list" \/ v.t = "list" THEN List(_merge_to_list(av, v))
  ELSE v

\* _deep_merge: result is a copy of a; the items of b are merged in, in order.
_deep_merge(a, b) ==
  IF b = <<>> THEN a
  ELSE LET k == Head(b).k
           v == Value(Head(b))
           result == IF has_key(a, k)
                     THEN [a EXCEPT ![key_index(a, k)] =
                             Item(k, merge_value(dict_get(a, k), v))]
                     ELSE Append(a, Item(k, v))
       IN _deep_merge(result, Tail(b))

\* _merge_to_list, one item of b_list: a dict is merged into the first dict
\* of result, or appended; any other item is appended unless result holds it.
merge_list_item(result, item) ==
  IF item.t = "dict"
  THEN IF \E i \in 1..Len(result) : result[i].t = "dict"
       THEN LET i == CHOOSE i \in 1..Len(result) :
                       /\ result[i].t = "dict"
                       /\ \A j \in 1..(i - 1) : result[j].t # "dict"
            IN [result EXCEPT ![i] = Mapping(_deep_merge(result[i].v, item.v))]
       ELSE Append(result, item)
  ELSE IF \E i \in 1..Len(result) : result[i] = item
       THEN result
       ELSE Append(result, item)

merge_list_items(result, b_list) ==
  IF b_list = <<>> THEN result
  ELSE merge_list_items(merge_list_item(result, Head(b_list)), Tail(b_list))

\* _merge_to_list: a value that is not a list is wrapped into one.
_merge_to_list(a_val, b_val) ==
  LET a_list == IF a_val.t = "list" THEN a_val.v ELSE <<a_val>>
      b_list == IF b_val.t = "list" THEN b_val.v ELSE <<b_val>>
  IN merge_list_items(a_list, b_list)

\* _deep_merge_many: reduce(_deep_merge, dicts).
RECURSIVE _deep_merge_many(_)
_deep_merge_many(dicts) ==
  IF Len(dicts) = 1 THEN dicts[1]
  ELSE _deep_merge_many(<<_deep_merge(dicts[1], dicts[2])>>
                          \o SubSeq(dicts, 3, Len(dicts)))

\* Option values and option dicts for the option merger alone: each of the
\* keys p and q is absent or holds a scalar, a list or a mapping.
OptionValues ==
  {Scalar("a"), Scalar("b"), List(<<Scalar("a")>>),
   Mapping(<<Item("n", Scalar("a"))>>), Mapping(<<Item("n", Scalar("b"))>>)}
OptionDicts ==
  {<<>>} \cup {<<Item(k, v)>> : k \in {"p", "q"}, v \in OptionValues}
         \cup {<<Item("p", v), Item("q", w)>> : v, w \in OptionValues}

(***************************************************************************)
(* Result records and futures.                                             *)
(***************************************************************************)
\* prev_result of a head task (None), and the record of an unresolved future.
NoRecord == [name |-> None, data |-> None, result |-> NoResult]

\* executor.submit: a new future, its work item not yet picked up.
\*   state: pending | running (picked up by a worker; a chained task's
\*          closure may be blocked on its predecessor) | invoking (inside
\*          TaskRunner.start, the handler being called) | done | raised
\*   entered: TaskRunner.start was entered; invoked: the handler was called
NewFuture(task_name, task_class, do_only, prev_future) ==
  [name |-> task_name, task_class |-> task_class, do_only |-> do_only,
   prev |-> prev_future, state |-> "pending", record |-> NoRecord,
   entered |-> FALSE, invoked |-> FALSE]

(***************************************************************************)
(* TaskRunner.start, the gating decision (run_task).                       *)
(***************************************************************************)
\* Mutant of run_task: "pre_success" runs the task unless the predecessor
\* failed.
run_task_unless_fail(prev_result, do_only) ==
  IF prev_result # NoRecord
  THEN IF do_only = "pre_success" THEN prev_result.result # FAIL
       ELSE IF do_only = "pre_fail" THEN prev_result.result = FAIL
       ELSE TRUE
  ELSE TRUE

\* Mutant of run_task: "pre_fail" is the negation of "pre_success".
run_task_complement(prev_result, do_only) ==
  IF prev_result # NoRecord
  THEN IF do_only = "pre_success" THEN prev_result.result = SUCCESS
       ELSE IF do_only = "pre_fail" THEN prev_result.result # SUCCESS
       ELSE TRUE
  ELSE TRUE

\* Mutant of run_task: a task without gating mode is gated like "pre_success".
run_task_default_gated(prev_result, do_only) ==
  IF prev_result # NoRecord
  THEN IF do_only = "pre_fail" THEN prev_result.result = FAIL
       ELSE prev_result.result = SUCCESS
  ELSE TRUE

\* Mutant of run_task: the gating mode is applied to a head task as well,
\* with no predecessor counting as neither SUCCESS nor FAIL.
run_task_gate_heads(prev_result, do_only) ==
  IF do_only = "pre_success" THEN prev_result.result = SUCCESS
  ELSE IF do_only = "pre_fail" THEN prev_result.result = FAIL
  ELSE TRUE

run_task(prev_result, do_only) ==
  IF prev_result # NoRecord
  THEN IF do_only = "pre_success" THEN prev_result.result = SUCCESS
       ELSE IF do_only = "pre_fail" THEN prev_result.result = FAIL
       ELSE TRUE
  ELSE TRUE

\* The record start returns when the gating suppresses the task.
ignore_record(task_name) ==
  [name |-> task_name, data |-> None, result |-> IGNORE]

\* The record start returns when the handler returned (result, return_data).
return_record(task_name, task_result, return_data) ==
  [name |-> task_name, data |-> return_data, result |-> task_result]

\* Mutant of except_record: the exception is swallowed and the task reported
\* as a success.
except_record_swallowed(task_name) ==
  [name |-> task_name, data |-> None, result |-> SUCCESS]

\* The record start returns when the handler call raised.
except_record(task_name) ==
  [name |-> task_name, data |-> None, result |-> FAIL]


(***************************************************************************)
(* State.                                                                  *)
(***************************************************************************)
VARIABLES
  stage_list,     \* flow_data["flow"]
  global_option,  \* flow_data.get("global_option")
  comb_list,      \* the combinations expanded from global_option
  option_layers,  \* _run_task: default_option, global_option, task_dic["option"]
  task_option,    \* _run_task: the merged option of the task_data
  parallel,       \* FlowWeave.run(parallel=...)
  show_log,       \* FlowWeave.run(show_log=...)
  max_workers,    \* worker threads of task_executor
  cpu_count,      \* os.cpu_count(): worker threads of flow_executor
  run,            \* the thread that called FlowWeave.run
  flows,          \* one run_flow call per combination
  flow_queue,     \* work items of flow_executor not yet picked up
  task_queue      \* work items of task_executor not yet picked up

config == <<stage_list, global_option, comb_list, option_layers, task_option,
            parallel, show_log, max_workers, cpu_count>>
vars == <<stage_list, global_option, comb_list, option_layers, task_option,
          parallel, show_log, max_workers, cpu_count, run, flows, flow_queue,
          task_queue>>

\* The stages of StageCatalog give their tasks no option.
NoOptionLayers == [default_option |-> <<>>, global_option |-> <<>>, option |-> <<>>]
NoTaskOption == [merged |-> FALSE, option |-> <<>>]

all_count == Len(comb_list)
Combs == 1..all_count

\* A run_flow call that has not begun.
\*   pc: new | queued | start | run_flow | _run_task | await | returned | raised
NewFlow ==
  [pc |-> "new", stage_idx |-> 1, flow_result |-> SUCCESS,
   stage_result |-> SUCCESS, calls |-> <<>>, all_futures |-> <<>>,
   await_idx |-> 1, log |-> <<>>, error |-> None]

Init ==
  /\ \E flow_data \in FlowDatas :
       /\ stage_list = flow_data.flow
       /\ global_option = flow_data.global_option
  /\ comb_list = <<>>
  /\ option_layers = NoOptionLayers
  /\ task_option = NoTaskOption
  /\ parallel \in BOOLEAN
  /\ show_log \in BOOLEAN
  /\ max_workers \in 1..MaxWorkers
  /\ cpu_count \in 1..MaxCpu
  /\ run = [pc |-> "load", comb_count |-> 0, results |-> <<>>, error |-> FALSE]
  /\ flows = <<>>
  /\ flow_queue = <<>>
  /\ task_queue = <<>>

(***************************************************************************)
(* The two executors.                                                      *)
(***************************************************************************)
Futures == UNION {{<<c, i>> : i \in DOMAIN flows[c].all_futures} : c \in Combs}
Fut(c, i) == flows[c].all_futures[i]

\* Worker threads of task_executor that hold a work item.
BusyWorkers ==
  Cardinality({j \in Futures : Fut(j[1], j[2]).state \in {"running", "invoking"}})

\* Worker threads of flow_executor that hold a run_flow call.
FlowActive(c) == flows[c].pc \in {"start", "run_flow", "_run_task", "await"}
BusyFlowWorkers == Cardinality({c \in Combs : FlowActive(c)})

Resolved(f) == f.state \in {"done", "raised"}


(***************************************************************************)
(* FlowWeave.run: the calling thread.                                      *)
(***************************************************************************)
\* FlowWeave.run up to its loop: the combination list is expanded from the
\* global option specification; one run_flow call per combination is to come.
run_expand ==
  /\ run.pc = "load"
  /\ comb_list' = run_comb_list(global_option)
  /\ flows' = [c \in 1..Len(comb_list') |-> NewFlow]
  /\ run' = [run EXCEPT !.pc = "submit"]
  /\ UNCHANGED <<stage_list, global_option, option_layers, task_option, parallel,
                 show_log, max_workers, cpu_count, flow_queue, task_queue>>

\* Parallel mode: submit run_flow for the next combination to flow_executor.
run_submit ==
  /\ run.pc = "submit" /\ parallel /\ run.comb_count < all_count
  /\ LET c == run.comb_count + 1 IN
       /\ run' = [run EXCEPT !.comb_count = c]
       /\ flows' = [flows EXCEPT ![c].pc = "queued"]
       /\ flow_queue' = Append(flow_queue, c)
  /\ UNCHANGED <<config, task_queue>>

\* Sequential mode: call run_flow for the next combination inline.
run_call ==
  /\ run.pc = "submit" /\ ~parallel /\ run.comb_count < all_count
  /\ LET c == run.comb_count + 1 IN
       /\ run' = [run EXCEPT !.comb_count = c, !.pc = "inline"]
       /\ flows' = [flows EXCEPT ![c].pc = "start"]
  /\ UNCHANGED <<config, flow_queue, task_queue>>

\* Sequential mode: the inline run_flow returned (its result is appended)
\* or raised (the exception leaves the loop).
run_call_return ==
  /\ run.pc = "inline"
  /\ LET fl == flows[run.comb_count] IN
       /\ fl.pc \in {"returned", "raised"}
       /\ run' = IF fl.pc = "returned"
                 THEN [run EXCEPT !.pc = "submit",
                                  !.results = Append(@, fl.flow_result)]
                 ELSE [run EXCEPT !.pc = "finally", !.error = TRUE]
  /\ UNCHANGED <<config, flows, flow_queue, task_queue>>

\* The loop over comb_list is over.
run_loop_end ==
  /\ run.pc = "submit" /\ run.comb_count = all_count
  /\ run' = IF parallel THEN [run EXCEPT !.pc = "collect", !.comb_count = 0]
                        ELSE [run EXCEPT !.pc = "finally"]
  /\ UNCHANGED <<config, flows, flow_queue, task_queue>>

\* Mutant of run_collect: the flow futures are collected last one first.
run_collect_reversed ==
  /\ run.pc = "collect"
  /\ IF run.comb_count = all_count
     THEN run' = [run EXCEPT !.pc = "finally"]
     ELSE LET c == all_count - run.comb_count
              fl == flows[c] IN
            /\ fl.pc \in {"returned", "raised"}
            /\ run' = IF fl.pc = "returned"
                      THEN [run EXCEPT !.comb_count = @ + 1,
                                       !.results = Append(@, fl.flow_result)]
                      ELSE [run EXCEPT !.pc = "finally", !.error = TRUE]
  /\ UNCHANGED <<config, flows, flow_queue, task_queue>>

\* Parallel mode: f.result() of the next flow future, in submission order.
run_collect ==
  /\ run.pc = "collect"
  /\ IF run.comb_count = all_count
     THEN run' = [run EXCEPT !.pc = "finally"]
     ELSE LET c == run.comb_count + 1
              fl == flows[c] IN
            /\ fl.pc \in {"returned", "raised"}
            /\ run' = IF fl.pc = "returned"
                      THEN [run EXCEPT !.comb_count = c,
                                       !.results = Append(@, fl.flow_result)]
                      ELSE [run EXCEPT !.pc = "finally", !.error = TRUE]
  /\ UNCHANGED <<config, flows, flow_queue, task_queue>>

\* finally: flow_executor.shutdown(wait=True).
shutdown_flow_executor ==
  /\ run.pc = "finally"
  /\ flow_queue = <<>>
  /\ \A c \in Combs : flows[c].pc \in {"new", "returned", "raised"}
  /\ run' = [run EXCEPT !.pc = "finally_tasks"]
  /\ UNCHANGED <<config, flows, flow_queue, task_queue>>

\* Mutant of shutdown_task_executor: the shutdown does not wait for the work
\* items of the pool.
shutdown_task_executor_nowait ==
  /\ run.pc = "finally_tasks"
  /\ run' = [run EXCEPT !.pc = IF run.error THEN "raised" ELSE "returned"]
  /\ UNCHANGED <<config, flows, flow_queue, task_queue>>

\* finally: task_executor.shutdown(wait=True); then run returns its results
\* or the pending exception propagates.
shutdown_task_executor ==
  /\ run.pc = "finally_tasks"
  /\ task_queue = <<>>
  /\ BusyWorkers = 0
  /\ run' = [run EXCEPT !.pc = IF run.error THEN "raised" ELSE "returned"]
  /\ UNCHANGED <<config, flows, flow_queue, task_queue>>

(***************************************************************************)
(* run_flow: one combination's flow.                                       *)
(***************************************************************************)
\* A worker thread of flow_executor picks up the oldest queued run_flow.
flow_pickup ==
  /\ flow_queue # <<>>
  /\ BusyFlowWorkers < cpu_count
  /\ flows' = [flows EXCEPT ![Head(flow_queue)].pc = "start"]
  /\ flow_queue' = Tail(flow_queue)
  /\ UNCHANGED <<config, run, task_queue>>

\* run_flow up to its loop: with show_log the call FlowMessage.flow_print(text)
\* passes one argument to a function of three, and raises TypeError.
run_flow_enter(c) ==
  /\ flows[c].pc = "start"
  /\ flows' = [flows EXCEPT ![c].pc = IF show_log THEN "raised" ELSE "run_flow",
                            ![c].error = IF show_log THEN "TypeError" ELSE None,
                            ![c].flow_result = SUCCESS]
  /\ UNCHANGED <<config, run, flow_queue, task_queue>>

\* Mutant of stage_ignored: the stages after a failed one are still executed.
stage_ignored_never(flow_result) == FALSE

\* if FlowWeaveResult.FAIL == flow_result: the stage is ignored.
stage_ignored(flow_result) == flow_result = FAIL

\* Mutant of chain_part: a task that gives no part is not a head.
chain_part_no_default(task_dic) == task_dic.part

\* part = task_dic.get("chain", {}).get("part", "head")
chain_part(task_dic) == IF task_dic.part = None THEN "head" ELSE task_dic.part

\* The _run_task call _run_stage makes for each head, in dict order.
RECURSIVE head_calls(_, _)
head_calls(stage_info, order) ==
  IF order = <<>> THEN <<>>
  ELSE (IF chain_part(stage_info.dic[Head(order)]) = "head"
        THEN << [task_name |-> Head(order), prev_future |-> 0, visited |-> {}] >>
        ELSE <<>>) \o head_calls(stage_info, Tail(order))

\* One turn of run_flow's loop over stage_list: return after the last stage,
\* skip the stage after a FAIL, or enter _run_stage.
run_flow_stage(c) ==
  LET fl == flows[c] IN
  /\ fl.pc = "run_flow"
  /\ IF fl.stage_idx > Len(stage_list)
     THEN flows' = [flows EXCEPT ![c].pc = "returned"]
     ELSE LET stage == stage_list[fl.stage_idx]
              calls == head_calls(StageCatalog[stage], StageCatalog[stage].order)
          IN IF stage_ignored(fl.flow_result)
             THEN flows' = [flows EXCEPT
                    ![c].stage_idx = @ + 1,
                    ![c].log = Append(@, [stage |-> stage, executed |-> FALSE,
                                          result |-> IGNORE, submitted |-> 0])]
             ELSE flows' = [flows EXCEPT
                    ![c].pc = IF calls = <<>> THEN "await" ELSE "_run_task",
                    ![c].stage_result = SUCCESS,
                    ![c].all_futures = <<>>,
                    ![c].await_idx = 1,
                    ![c].calls = calls]
  /\ UNCHANGED <<config, run, flow_queue, task_queue>>


(***************************************************************************)
(* _run_stage, _run_task and _submit_task: the dispatch of one stage.      *)
(***************************************************************************)
\* What a _run_task call raises before it submits anything: the cycle error,
\* AttributeError on a task the stage does not hold (task_dic is None), the
\* error for an operation code missing from op_dic; None when it raises nothing.
run_task_error(stage_info, call) ==
  IF call.task_name \in call.visited THEN "Cycle"
  ELSE IF call.task_name \notin DOMAIN stage_info.dic THEN "AttributeError"
  ELSE IF stage_info.dic[call.task_name].op \notin DOMAIN op_dic THEN "OpNotFound"
  ELSE None

\* _submit_task: the future of the submitted work item.
_submit_task(prev_future, task_name, task_dic) ==
  NewFuture(task_name, op_dic[task_dic.op], task_dic.do_only, prev_future)

\* Mutant of link_calls: a link to a task that was submitted already on
\* another path is not followed again.
link_calls_once(links, future, visited) ==
  LET fresh == SelectSeq(links, LAMBDA l :
                 \/ l \in visited
                 \/ \A j \in Futures : Fut(j[1], j[2]).name # l)
  IN [k \in 1..Len(fresh) |->
        [task_name |-> fresh[k], prev_future |-> future, visited |-> visited]]

\* Mutant of link_calls: one visited set for the whole traversal, that keeps
\* every name submitted so far instead of the names of the calling path.
link_calls_shared_visited(links, future, visited) ==
  [k \in 1..Len(links) |->
     [task_name |-> links[k], prev_future |-> future,
      visited |-> visited \cup {Fut(j[1], j[2]).name : j \in Futures}]]

\* The recursive _run_task calls for the links of a task, each with the
\* task's future as predecessor and a copy of the visited set.
link_calls(links, future, visited) ==
  [k \in 1..Len(links) |->
     [task_name |-> links[k], prev_future |-> future, visited |-> visited]]

\* One _run_task call, up to its recursion into the links: raise (calls then
\* keeps the call that raised), or submit the task and go on with its links,
\* depth first.
_run_task(c) ==
  LET fl == flows[c]
      stage_info == StageCatalog[stage_list[fl.stage_idx]]
      call == Head(fl.calls)
      error == run_task_error(stage_info, call)
      task_dic == stage_info.dic[call.task_name]
      future == Len(fl.all_futures) + 1
      calls == link_calls(task_dic.next, future, call.visited \cup {call.task_name})
                 \o Tail(fl.calls)
  IN
  /\ fl.pc = "_run_task"
  /\ IF error # None
     THEN /\ flows' = [flows EXCEPT ![c].pc = "raised", ![c].error = error,
                                    ![c].calls = <<call>>]
          /\ UNCHANGED task_queue
     ELSE /\ flows' = [flows EXCEPT
                 ![c].all_futures =
                    Append(@, _submit_task(call.prev_future, call.task_name, task_dic)),
                 ![c].calls = calls,
                 ![c].pc = IF calls = <<>> THEN "await" ELSE "_run_task"]
          /\ task_queue' = Append(task_queue, <<c, future>>)
  /\ UNCHANGED <<config, run, flow_queue>>

\* Mutant of await_result: an exception of f.result() is swallowed without
\* failing the stage.
await_result_swallow(stage_result, f) ==
  IF f.state = "raised" THEN stage_result
  ELSE IF f.record.result = FAIL THEN FAIL
  ELSE stage_result

\* _run_stage, one turn of the loop over all_futures: stage_result after
\* f.result() returned a record or raised.
await_result(stage_result, f) ==
  IF f.state = "raised" THEN FAIL
  ELSE IF f.record.result = FAIL THEN FAIL
  ELSE stage_result

\* Mutant of await_future: the loop over all_futures is left at the first
\* future that fails the stage.
await_future_break(c) ==
  LET fl == flows[c]
      result == await_result(fl.stage_result, fl.all_futures[fl.await_idx]) IN
  /\ fl.pc = "await"
  /\ fl.await_idx <= Len(fl.all_futures)
  /\ Resolved(fl.all_futures[fl.await_idx])
  /\ flows' = [flows EXCEPT
        ![c].stage_result = result,
        ![c].await_idx = IF result = FAIL THEN Len(fl.all_futures) + 1 ELSE @ + 1]
  /\ UNCHANGED <<config, run, flow_queue, task_queue>>

\* _run_stage, one turn of the loop over all_futures: f.result() blocks until
\* the future is resolved.
await_future(c) ==
  LET fl == flows[c] IN
  /\ fl.pc = "await"
  /\ fl.await_idx <= Len(fl.all_futures)
  /\ Resolved(fl.all_futures[fl.await_idx])
  /\ flows' = [flows EXCEPT
        ![c].stage_result = await_result(@, fl.all_futures[fl.await_idx]),
        ![c].await_idx = @ + 1]
  /\ UNCHANGED <<config, run, flow_queue, task_queue>>

\* run_flow: flow_result after a stage that resulted in `result`.
next_flow_result(flow_result, result) ==
  IF result = FAIL THEN FAIL ELSE flow_result

\* _run_stage returns stage_result to run_flow, which goes on with the next
\* stage; the stage's futures are all resolved and are dropped.
stage_return(c) ==
  LET fl == flows[c] IN
  /\ fl.pc = "await"
  /\ fl.await_idx > Len(fl.all_futures)
  /\ flows' = [flows EXCEPT
        ![c].pc = "run_flow",
        ![c].flow_result = next_flow_result(@, fl.stage_result),
        ![c].stage_idx = @ + 1,
        ![c].all_futures = <<>>,
        ![c].await_idx = 1,
        ![c].log = Append(@, [stage |-> stage_list[fl.stage_idx], executed |-> TRUE,
                              result |-> fl.stage_result,
                              submitted |-> Len(fl.all_futures)])]
  /\ UNCHANGED <<config, run, flow_queue, task_queue>>

(***************************************************************************)
(* The worker threads of task_executor.                                    *)
(***************************************************************************)
\* Mutant of worker_pickup: a free worker thread picks up the newest work item.
worker_pickup_lifo ==
  /\ task_queue # <<>>
  /\ BusyWorkers < max_workers
  /\ LET j == task_queue[Len(task_queue)] IN
       flows' = [flows EXCEPT ![j[1]].all_futures[j[2]].state = "running"]
  /\ task_queue' = SubSeq(task_queue, 1, Len(task_queue) - 1)
  /\ UNCHANGED <<config, run, flow_queue>>

\* A free worker thread picks up the oldest work item.
worker_pickup ==
  /\ task_queue # <<>>
  /\ BusyWorkers < max_workers
  /\ LET j == Head(task_queue) IN
       flows' = [flows EXCEPT ![j[1]].all_futures[j[2]].state = "running"]
  /\ task_queue' = Tail(task_queue)
  /\ UNCHANGED <<config, run, flow_queue>>

\* Mutant of prev_ready: the closure does not wait for its predecessor.
prev_ready_no_wait(c, i) == TRUE

\* prev_future.result() returns or raises: a head task has no predecessor, a
\* chained task's closure blocks until its predecessor's future is resolved.
prev_ready(c, i) ==
  IF Fut(c, i).prev = 0 THEN TRUE ELSE Resolved(Fut(c, Fut(c, i).prev))

\* Mutant of TaskRunner_start: a failure to construct the handler is caught
\* and converted to a FAIL record.
TaskRunner_start_catch_all(f, prev_result) ==
  IF TaskClasses[f.task_class].ctor_raises
  THEN [f EXCEPT !.state = "done", !.entered = TRUE,
                 !.record = [name |-> f.name, data |-> None, result |-> FAIL]]
  ELSE IF run_task(prev_result, f.do_only)
  THEN [f EXCEPT !.state = "invoking", !.entered = TRUE, !.invoked = TRUE]
  ELSE [f EXCEPT !.state = "done", !.entered = TRUE,
                 !.record = ignore_record(f.name)]

\* TaskRunner.start up to the handler call, on the future f of the task:
\* constructing the handler or injecting the options may raise, and the
\* exception leaves start; the gating then suppresses the task (start returns
\* the IGNORE record) or the handler is called.
TaskRunner_start(f, prev_result) ==
  IF TaskClasses[f.task_class].ctor_raises
  THEN [f EXCEPT !.state = "raised", !.entered = TRUE]
  ELSE IF run_task(prev_result, f.do_only)
  THEN [f EXCEPT !.state = "invoking", !.entered = TRUE, !.invoked = TRUE]
  ELSE [f EXCEPT !.state = "done", !.entered = TRUE,
                 !.record = ignore_record(f.name)]

\* Mutant of runner: an exception of the predecessor's future does not leave
\* the closure, and TaskRunner.start is entered without a previous record.
runner_enters_after_raise(c, i) ==
  LET f == Fut(c, i)
      prev_result == IF f.prev = 0 THEN NoRecord ELSE Fut(c, f.prev).record
  IN
  /\ f.state = "running"
  /\ prev_ready(c, i)
  /\ flows' = [flows EXCEPT ![c].all_futures[i] = TaskRunner_start(f, prev_result)]
  /\ UNCHANGED <<config, run, flow_queue, task_queue>>

\* The work item up to the handler call: the closure of a chained task takes
\* its predecessor's record (an exception of the predecessor's future leaves
\* the closure), and TaskRunner.start is entered.
runner(c, i) ==
  LET f == Fut(c, i)
      prev_result == IF f.prev = 0 THEN NoRecord ELSE Fut(c, f.prev).record
  IN
  /\ f.state = "running"
  /\ prev_ready(c, i)
  /\ flows' = [flows EXCEPT ![c].all_futures[i] =
       IF f.prev # 0 /\ Fut(c, f.prev).state = "raised"
       THEN [f EXCEPT !.state = "raised"]
       ELSE TaskRunner_start(f, prev_result)]
  /\ UNCHANGED <<config, run, flow_queue, task_queue>>

\* The results the handler of a task class may return with the options that
\* TaskRunner.start injected into it.
handler_results(task_class, option) ==
  IF task_class = "OptionTask"
  THEN {IF option_get(option, "x") = "2" THEN FAIL ELSE SUCCESS}
  ELSE TaskClasses[task_class].results

\* The handler call returns (result, return_data) or raises, and
\* TaskRunner.start returns the record.
handler_return(c, i) ==
  LET f == Fut(c, i)
      class == TaskClasses[f.task_class]
      option == _get_stage_global_option(comb_list[c], stage_list[flows[c].stage_idx])
  IN
  /\ f.state = "invoking"
  /\ \/ /\ class.raises
        /\ flows' = [flows EXCEPT ![c].all_futures[i] =
             [f EXCEPT !.state = "done", !.record = except_record(f.name)]]
     \/ \E task_result \in handler_results(f.task_class, option) :
          flows' = [flows EXCEPT ![c].all_futures[i] =
             [f EXCEPT !.state = "done",
                       !.record = return_record(f.name, task_result, "data")]]
  /\ UNCHANGED <<config, run, flow_queue, task_queue>>

(***************************************************************************)
(* Specification.                                                          *)
(***************************************************************************)
Next ==
  \/ run_expand
  \/ run_submit
  \/ run_call
  \/ run_call_return
  \/ run_loop_end
  \/ run_collect
  \/ shutdown_flow_executor
  \/ shutdown_task_executor
  \/ flow_pickup
  \/ \E c \in Combs : run_flow_enter(c)
  \/ \E c \in Combs : run_flow_stage(c)
  \/ \E c \in Combs : _run_task(c)
  \/ \E c \in Combs : await_future(c)
  \/ \E c \in Combs : stage_return(c)
  \/ worker_pickup
  \/ \E j \in Futures : runner(j[1], j[2])
  \/ \E j \in Futures : handler_return(j[1], j[2])

Spec == Init /\ [][Next]_vars

\* The threads keep running: the calling thread and the worker threads of
\* both pools take their next step when they can, and every handler returns.
FairSpec == Spec /\ WF_vars(Next)

\* The combination expander alone, on every specification of GlobalOptions.
InitComb ==
  /\ stage_list = <<"ok1">>
  /\ global_option \in GlobalOptions
  /\ comb_list = <<>>
  /\ option_layers = NoOptionLayers
  /\ task_option = NoTaskOption
  /\ parallel = FALSE
  /\ show_log = FALSE
  /\ max_workers = 1
  /\ cpu_count = 1
  /\ run = [pc |-> "load", comb_count |-> 0, results |-> <<>>, error |-> FALSE]
  /\ flows = <<>>
  /\ flow_queue = <<>>
  /\ task_queue = <<>>

SpecComb == InitComb /\ [][run_expand]_vars

\* The option merger alone: _run_task resolves the option of one task from
\* every three layers of OptionDicts.
InitMerge ==
  /\ stage_list = <<"ok1">>
  /\ global_option = NoGlobalOption
  /\ comb_list = << <<>> >>
  /\ option_layers \in [default_option : OptionDicts, global_option : OptionDicts,
                         option : OptionDicts]
  /\ task_option = NoTaskOption
  /\ parallel = FALSE
  /\ show_log = FALSE
  /\ max_workers = 1
  /\ cpu_count = 1
  /\ run = [pc |-> "inline", comb_count |-> 1, results |-> <<>>, error |-> FALSE]
  /\ flows = << [NewFlow EXCEPT !.pc = "_run_task"] >>
  /\ flow_queue = <<>>
  /\ task_queue = <<>>

\* task_option = _deep_merge_many(default_option, global_option, option).
resolve_task_option ==
  /\ ~task_option.merged
  /\ task_option' =
       [merged |-> TRUE,
        option |-> _deep_merge_many(<<option_layers.default_option,
                                      option_layers.global_option,
                                      option_layers.option>>)]
  /\ UNCHANGED <<stage_list, global_option, comb_list, option_layers, parallel,
                 show_log, max_workers, cpu_count, run, flows, flow_queue,
                 task_queue>>

SpecMerge == InitMerge /\ [][resolve_task_option]_vars


(***************************************************************************)
(* Properties.                                                             *)
(***************************************************************************)
\* _run_stage of flow c awaited every future and is about to return.
AtStageReturn(c) ==
  flows[c].pc = "await" /\ flows[c].await_idx > Len(flows[c].all_futures)

\* The future resolved to a result record.
HasRecord(f) == f.state = "done"

\* C1: a chained task (one dispatched with a predecessor future) enters
\* TaskRunner.start only once its predecessor's future has resolved to its
\* result record; it is never inside start while the predecessor is pending
\* or running, whatever the size of the task pool.
C1_ChainedStartAfterPredecessor ==
  \A j \in Futures :
    LET f == Fut(j[1], j[2]) IN
      (f.prev # 0 /\ f.entered) => HasRecord(Fut(j[1], f.prev))

\* A chained task is inside its handler, in a pool of two workers, after its
\* predecessor's record.
C1_Witness ==
  \E j \in Futures :
    LET f == Fut(j[1], j[2]) IN
      /\ f.prev # 0 /\ f.state = "invoking" /\ max_workers = 2
      /\ Fut(j[1], f.prev).record.result = SUCCESS

\* C2: when _run_stage returns, its result is FAIL if and only if some future
\* dispatched for the stage resolved to a record whose result is FAIL or
\* raised when awaited, and SUCCESS otherwise; a task suppressed by gating
\* (record IGNORE) does not make the stage FAIL.
C2_StageResult ==
  \A c \in Combs :
    AtStageReturn(c) =>
      /\ flows[c].stage_result \in {FAIL, SUCCESS}
      /\ flows[c].stage_result = FAIL <=>
           \E i \in DOMAIN flows[c].all_futures :
             \/ Fut(c, i).state = "raised"
             \/ Fut(c, i).record.result = FAIL

\* A stage returns SUCCESS although gating suppressed one of its tasks.
C2_Witness ==
  \E c \in Combs :
    /\ AtStageReturn(c)
    /\ flows[c].stage_result = SUCCESS
    /\ \E i \in DOMAIN flows[c].all_futures :
         ~Fut(c, i).invoked /\ Fut(c, i).record.result = IGNORE

\* Stage k of flow c was executed and resulted in FAIL.
StageFailed(c, k) == flows[c].log[k].executed /\ flows[c].log[k].result = FAIL

\* C3: in run_flow, once a stage resulted in FAIL no task of a later stage is
\* dispatched: every later stage is reported as ignored and not executed; and
\* the flow's result is FAIL if and only if some executed stage resulted in
\* FAIL.
C3_FailSkipsLaterStages ==
  \A c \in Combs :
    LET fl == flows[c] IN
      /\ \A k \in DOMAIN fl.log : \A m \in DOMAIN fl.log :
           (k < m /\ StageFailed(c, k)) =>
             ~fl.log[m].executed /\ fl.log[m].submitted = 0
      /\ (\E k \in DOMAIN fl.log : StageFailed(c, k)) =>
           fl.pc \in {"run_flow", "returned"} /\ fl.all_futures = <<>>
      /\ fl.pc = "returned" =>
           /\ Len(fl.log) = Len(stage_list)
           /\ fl.flow_result = FAIL <=> \E k \in DOMAIN fl.log : StageFailed(c, k)

\* The flow [ok1, fail1, ok1] returned FAIL with its third stage ignored.
C3_Witness ==
  \E c \in Combs :
    LET fl == flows[c] IN
      /\ fl.pc = "returned" /\ fl.flow_result = FAIL /\ Len(fl.log) = 3
      /\ fl.log[1].executed /\ fl.log[1].result = SUCCESS
      /\ StageFailed(c, 2)
      /\ ~fl.log[3].executed


\* TaskRunner.start got past the construction of the handler to its gating
\* decision: the handler is being called, or start returned a record.
GatingDecided(f) == f.state \in {"invoking", "done"}

\* The chained futures of gating mode do_only whose predecessor produced a
\* record and whose start reached the gating decision.
Gated(do_only) ==
  {j \in Futures :
     LET f == Fut(j[1], j[2]) IN
       /\ f.prev # 0 /\ f.do_only = do_only
       /\ HasRecord(Fut(j[1], f.prev))
       /\ GatingDecided(f)}

PrevResult(j) == Fut(j[1], Fut(j[1], j[2]).prev).record.result

\* The task was suppressed: start returned the IGNORE record with no
\* returned data and the handler was not called.
Suppressed(f) ==
  /\ ~f.invoked /\ f.state = "done"
  /\ f.record.result = IGNORE /\ f.record.data = None

\* C4: a task of gating mode "pre_success" with a predecessor record has its
\* handler called if and only if the predecessor's result is SUCCESS; when it
\* is not called, the record produced has result IGNORE and no returned data.
\* (Stated of the tasks whose handler was constructed: start raises before the
\* gating decision when the construction fails, see C9.)
C4_PreSuccessGating ==
  \A j \in Gated("pre_success") :
    LET f == Fut(j[1], j[2]) IN
      /\ f.invoked <=> PrevResult(j) = SUCCESS
      /\ ~f.invoked => Suppressed(f)

\* A "pre_success" task is suppressed after a predecessor that returned FAIL.
C4_Witness ==
  \E j \in Gated("pre_success") :
    PrevResult(j) = FAIL /\ Suppressed(Fut(j[1], j[2]))

\* Two chained tasks after the same predecessor, the first of gating mode
\* "pre_success" and the second of gating mode "pre_fail".
GatePairs ==
  {p \in Gated("pre_success") \X Gated("pre_fail") :
     /\ p[1][1] = p[2][1]
     /\ Fut(p[1][1], p[1][2]).prev = Fut(p[2][1], p[2][2]).prev}

\* C5 as stated: "pre_fail" is the exact complement of "pre_success" for every
\* predecessor result (SUCCESS, FAIL, IGNORE): after the same predecessor the
\* "pre_fail" task calls its handler exactly when the "pre_success" task is
\* suppressed.
C5_ExactComplement ==
  \A p \in GatePairs :
    Fut(p[2][1], p[2][2]).invoked <=> ~Fut(p[1][1], p[1][2]).invoked

\* C5, amended: after a predecessor result of SUCCESS or FAIL the "pre_fail"
\* task calls its handler exactly when the "pre_success" task is suppressed;
\* after any other predecessor result (IGNORE) both tasks are suppressed.
C5_ComplementOnSuccessFail ==
  \A p \in GatePairs :
    LET s == Fut(p[1][1], p[1][2])
        f == Fut(p[2][1], p[2][2])
    IN IF PrevResult(p[1]) \in {SUCCESS, FAIL}
       THEN f.invoked <=> ~s.invoked
       ELSE Suppressed(s) /\ Suppressed(f)

\* After a predecessor whose result is IGNORE both gated tasks are suppressed.
C5_Witness ==
  \E p \in GatePairs :
    /\ PrevResult(p[1]) = IGNORE
    /\ Suppressed(Fut(p[1][1], p[1][2]))
    /\ Suppressed(Fut(p[2][1], p[2][2]))

\* C6: a chained task without gating mode calls its handler once its
\* predecessor produced a record, whatever the predecessor's result
\* (SUCCESS, FAIL or IGNORE): chaining alone never suppresses a task.
\* (Stated of the tasks whose handler was constructed, as C4.)
C6_UnsetGatingAlwaysRuns ==
  \A j \in Gated(None) :
    /\ PrevResult(j) \in {SUCCESS, FAIL, IGNORE}
    /\ Fut(j[1], j[2]).invoked

\* A task without gating mode ran after a predecessor that failed or was
\* suppressed.
C6_Witness ==
  \E j \in Gated(None) :
    /\ PrevResult(j) \in {FAIL, IGNORE}
    /\ Fut(j[1], j[2]).state = "done"
    /\ Fut(j[1], j[2]).invoked

\* C7: a head task (no predecessor) calls its handler whatever its gating
\* mode; and the flow [ok1, headgate], whose second stage has a head of gating
\* mode "pre_success" returning SUCCESS, returns SUCCESS.
\* (Stated of the tasks whose handler was constructed, as C4.)
C7_HeadIgnoresGating ==
  /\ \A j \in Futures :
       LET f == Fut(j[1], j[2]) IN
         (f.prev = 0 /\ GatingDecided(f)) => f.invoked
  /\ \A c \in Combs :
       (stage_list = <<"ok1", "headgate">> /\ flows[c].pc = "returned") =>
         /\ flows[c].flow_result = SUCCESS
         /\ \A k \in 1..2 : flows[c].log[k].executed
                            /\ flows[c].log[k].result = SUCCESS

\* The second stage of [ok1, headgate] is about to return SUCCESS, its head
\* of gating mode "pre_success" having run.
C7_Witness ==
  \E c \in Combs :
    /\ stage_list = <<"ok1", "headgate">> /\ flows[c].stage_idx = 2
    /\ AtStageReturn(c) /\ flows[c].stage_result = SUCCESS
    /\ \E i \in DOMAIN flows[c].all_futures :
         LET f == Fut(c, i) IN
           /\ f.prev = 0 /\ f.do_only = "pre_success"
           /\ f.invoked /\ f.record.result = SUCCESS


\* The handler of the task was called and raised.
HandlerRaised(f) ==
  f.invoked /\ TaskClasses[f.task_class].raises /\ Resolved(f)

\* The futures of the chain that leads to future i of flow c, i included.
RECURSIVE Path(_, _)
Path(c, i) == IF Fut(c, i).prev = 0 THEN {i} ELSE {i} \cup Path(c, Fut(c, i).prev)

\* C8: when a task's handler raises while it is called, the task's record has
\* result FAIL and no returned data and the exception does not leave
\* TaskRunner.start (the future resolves to the record); every task on an
\* independent chain of the stage (one that does not descend from a failing
\* task) still runs to completion; and the stage returns FAIL to run_flow.
C8_HandlerExceptionIsFail ==
  \A c \in Combs :
    LET futs == DOMAIN flows[c].all_futures
        raisers == {i \in futs : HandlerRaised(Fut(c, i))}
    IN
    /\ \A i \in raisers :
         /\ HasRecord(Fut(c, i))
         /\ Fut(c, i).record.result = FAIL
         /\ Fut(c, i).record.data = None
    /\ (AtStageReturn(c) /\ raisers # {}) =>
         /\ flows[c].stage_result = FAIL
         /\ \A g \in futs :
              (Path(c, g) \cap raisers = {}) =>
                /\ Resolved(Fut(c, g))
                /\ (\A a \in Path(c, g) :
                      ~TaskClasses[Fut(c, a).task_class].ctor_raises) =>
                     HasRecord(Fut(c, g))
                /\ (Fut(c, g).prev = 0 /\ HasRecord(Fut(c, g))) =>
                     Fut(c, g).invoked

\* The stage `indep` is about to return FAIL: the handler of its head A
\* raised, and the independent chain C -> D ran to its SUCCESS records.
C8_Witness ==
  \E c \in Combs :
    /\ AtStageReturn(c) /\ flows[c].stage_result = FAIL
    /\ \E i \in DOMAIN flows[c].all_futures :
         HandlerRaised(Fut(c, i)) /\ Fut(c, i).record.result = FAIL
    /\ \E g \in DOMAIN flows[c].all_futures :
         /\ Fut(c, g).prev # 0
         /\ \A a \in Path(c, g) :
              /\ ~HandlerRaised(Fut(c, a))
              /\ Fut(c, a).invoked /\ Fut(c, a).record.result = SUCCESS

\* C9 as stated: TaskRunner.start never raises to its caller: every call
\* returns a result record, a failure while constructing the handler or
\* injecting its options being converted to a FAIL record.
C9_StartNeverRaises ==
  \A j \in Futures :
    LET f == Fut(j[1], j[2]) IN
      (f.entered /\ Resolved(f)) =>
        /\ HasRecord(f)
        /\ TaskClasses[f.task_class].ctor_raises => f.record.result = FAIL

\* C9, amended: TaskRunner.start returns a result record whenever the handler
\* was constructed and its options injected, a failure of the handler call
\* being converted to a FAIL record; a failure while constructing the handler
\* or injecting its options is raised to the caller, so that the task's
\* future raises without the handler having been called.
C9_StartRaisesOnlyOnConstruction ==
  \A j \in Futures :
    LET f == Fut(j[1], j[2]) IN
      (f.entered /\ Resolved(f)) =>
        IF TaskClasses[f.task_class].ctor_raises
        THEN f.state = "raised" /\ ~f.invoked /\ f.record = NoRecord
        ELSE /\ HasRecord(f)
             /\ f.record.result \in {FAIL, SUCCESS, IGNORE}
             /\ HandlerRaised(f) => f.record.result = FAIL

\* TaskRunner.start was entered for a task whose construction raises, and the
\* task's future raised.
C9_Witness ==
  \E j \in Futures :
    LET f == Fut(j[1], j[2]) IN
      /\ f.entered /\ f.state = "raised"
      /\ TaskClasses[f.task_class].ctor_raises

\* C10 as stated: when the dispatch of a stage raises the cycle error, no task
\* on the path that closes the cycle has been submitted to the task pool.
C10_CycleBeforeSubmission ==
  \A c \in Combs :
    flows[c].error = "Cycle" =>
      \A i \in DOMAIN flows[c].all_futures :
        Fut(c, i).name \notin Head(flows[c].calls).visited

(***************************************************************************)
(* C11: the cycle detection is scoped to the traversal path.               *)
(***************************************************************************)
\* The task names on the dispatch path that ends in future i of flow c.
PathNames(c, i) == {Fut(c, a).name : a \in Path(c, i)}

\* C11: _run_task raises the cycle error if and only if the traversal reaches
\* a task name already on the same path from a head: the call that raised
\* names a task on the path of its predecessor, no submitted task has its own
\* name among its ancestors, and the diamond stage (A to B and C, both to D)
\* never raises the cycle error.
C11_CyclePathScoped ==
  \A c \in Combs :
    LET fl == flows[c] IN
    /\ fl.error = "Cycle" =>
          LET call == Head(fl.calls) IN
          /\ call.prev_future # 0
          /\ call.task_name \in PathNames(c, call.prev_future)
    /\ \A i \in DOMAIN fl.all_futures :
          Fut(c, i).prev # 0 => Fut(c, i).name \notin PathNames(c, Fut(c, i).prev)
    /\ (fl.stage_idx <= Len(stage_list) /\ stage_list[fl.stage_idx] = "diamond")
          => fl.error # "Cycle"

\* The diamond stage was dispatched whole: D was submitted on the path through
\* B and on the path through C, and the stage is being awaited.
C11_Witness ==
  \E c \in Combs :
    /\ flows[c].pc = "await" /\ flows[c].error = None
    /\ stage_list[flows[c].stage_idx] = "diamond"
    /\ \E i, j \in DOMAIN flows[c].all_futures :
          /\ i # j /\ Fut(c, i).name = "D" /\ Fut(c, j).name = "D"
          /\ Fut(c, Fut(c, i).prev).name = "B" /\ Fut(c, Fut(c, j).prev).name = "C"

\* The cycle stage raised the cycle error on the link from B back to A.
C11_WitnessCycle ==
  \E c \in Combs :
    /\ flows[c].error = "Cycle"
    /\ Head(flows[c].calls).task_name = "A"
    /\ Fut(c, Head(flows[c].calls).prev_future).name = "B"

(***************************************************************************)
(* C12, C13: what an error of the dispatch does to the run.                *)
(***************************************************************************)
\* FlowWeave.run is over: it returned its results or an exception left it.
RunOver == run.pc \in {"returned", "raised"}

\* The tasks flow c submitted so far: in the stage it is in, and in the stages
\* it went through.
Submitted(c) ==
  Len(flows[c].all_futures) > 0
    \/ \E k \in DOMAIN flows[c].log : flows[c].log[k].submitted > 0

\* C12 as stated: a cycle error is confined to the stage it was detected in:
\* the run is not terminated by it and returns a result for every combination.
C12_CycleConfinedToStage ==
  (\E c \in Combs : flows[c].error = "Cycle") =>
    /\ run.pc # "raised"
    /\ run.pc = "returned" => Len(run.results) = all_count

\* C13 as stated: when a task names an operation code that op_dic does not
\* hold, or a next link names a task the stage does not hold, the run fails
\* without any task of any stage having been submitted to the task pool.
C13_ConfigErrorBeforeScheduling ==
  (\E c \in Combs : flows[c].error \in {"OpNotFound", "AttributeError"}) =>
    \A d \in Combs : ~Submitted(d)

(***************************************************************************)
(* C14, C15: the results of the run and the log flag.                      *)
(***************************************************************************)
\* cli.main: result = all(x == FlowWeaveResult.SUCCESS for x in results).
main(results) == \A i \in DOMAIN results : results[i] = SUCCESS

\* The errors _run_task raises while it dispatches a stage.
DispatchErrors == {"Cycle", "AttributeError", "OpNotFound"}

\* FlowWeave.run returned one result per combination, the i-th being the
\* result of the i-th combination's flow, and main reports their conjunction.
ResultPerCombination ==
  /\ run.pc = "returned"
  /\ Len(run.results) = all_count
  /\ \A i \in Combs : /\ flows[i].pc = "returned"
                       /\ run.results[i] = flows[i].flow_result
  /\ main(run.results) <=> \A i \in Combs : flows[i].flow_result = SUCCESS

\* C14 as stated: when no dispatch error occurs, FlowWeave.run returns exactly
\* one flow result per combination, the i-th result being the result of the
\* i-th combination's flow in sequential and in parallel mode, and the entry
\* point reports success if and only if every result is SUCCESS.
C14_OneResultPerCombination ==
  (RunOver /\ \A c \in Combs : flows[c].error \notin DispatchErrors)
    => ResultPerCombination

\* The part of C14 the code keeps: the same with the log flag unset.
C14_WithoutLogFlag ==
  (RunOver /\ ~show_log /\ \A c \in Combs : flows[c].error \notin DispatchErrors)
    => ResultPerCombination

\* A parallel run of two combinations returned, one flow FAIL.
C14_WithoutLogFlagWitness ==
  /\ run.pc = "returned" /\ parallel /\ all_count = 2
  /\ \E i \in Combs : run.results[i] = FAIL

\* C15 as stated: with show_log set FlowWeave.run completes and returns a
\* list of flow results, one per combination, as it does with show_log unset.
C15_LogFlagSameOutcome ==
  (RunOver /\ show_log /\ \A c \in Combs : flows[c].error \notin DispatchErrors)
    => /\ run.pc = "returned"
       /\ Len(run.results) = all_count

(***************************************************************************)
(* C16: the combinations.                                                  *)
(***************************************************************************)
\* The option keys of a global option specification in input order, each with
\* its group, its place in the group and its number of candidate values.
OptionKeys(go) ==
  concat([g \in 1..Len(go) |->
            [k \in 1..Len(go[g][2]) |->
               [group |-> g, key |-> k, count |-> Len(go[g][2][k][2])]]])

\* The product of the candidate counts of the option keys from place s on.
RECURSIVE CandidateProduct(_, _)
CandidateProduct(keys, s) ==
  IF s > Len(keys) THEN 1 ELSE keys[s].count * CandidateProduct(keys, s + 1)

\* The n-th combination in the order of the input keys and values: the first
\* key is the most significant, each key goes through its values in order.
CombinationAt(go, n) ==
  LET keys == OptionKeys(go)
      place(g, k) == CHOOSE s \in 1..Len(keys) : keys[s].group = g /\ keys[s].key = k
      digit(s) == ((n - 1) \div CandidateProduct(keys, s + 1)) % keys[s].count
  IN [g \in 1..Len(go) |->
        <<go[g][1],
          [k \in 1..Len(go[g][2]) |->
             <<go[g][2][k][1], go[g][2][k][2][digit(place(g, k)) + 1]>>]>>]

Layers ==
  <<option_layers.default_option, option_layers.global_option,
    option_layers.option>>

\* The layers that define key k, and the last of them.
Defining(k) == {l \in 1..3 : has_key(Layers[l], k)}
Latest(k) == CHOOSE l \in Defining(k) : \A m \in Defining(k) : m <= l
LayerValue(l, k) == dict_get(Layers[l], k)

\* C17: the option a task is dispatched with is merge(merge(default, global),
\* local); a key that is a scalar in every layer that defines it resolves to
\* the value of the latest layer defining it (local over global over default),
\* a key that one layer alone defines keeps that layer's value, the keys of
\* the result are those of the layers, and the layers are as they were given.
C17_OptionLayersMerge ==
  task_option.merged =>
    /\ task_option.option =
         _deep_merge(_deep_merge(Layers[1], Layers[2]), Layers[3])
    /\ \A k \in {"p", "q"} :
         /\ has_key(task_option.option, k) <=> Defining(k) # {}
         /\ (Defining(k) # {} /\ \A l \in Defining(k) : LayerValue(l, k).t = "scalar")
              => dict_get(task_option.option, k) = LayerValue(Latest(k), k)
         /\ Cardinality(Defining(k)) = 1
              => dict_get(task_option.option, k) = LayerValue(Latest(k), k)
    /\ \A l \in 1..3 : Layers[l] \in OptionDicts

\* The three layers give key p the scalars a, b, a: the task gets a, the
\* local value, and key q from the global layer alone.
C17_Witness ==
  /\ task_option.merged
  /\ option_layers.default_option = <<Item("p", Scalar("a"))>>
  /\ option_layers.global_option = <<Item("p", Scalar("b")), Item("q", Scalar("b"))>>
  /\ option_layers.option = <<Item("p", Scalar("a"))>>
  /\ task_option.option = <<Item("p", Scalar("a")), Item("q", Scalar("b"))>>

(***************************************************************************)
(* C18: the tasks a stage dispatches.                                      *)
(***************************************************************************)
\* The tasks of a stage reachable from the tasks of S by next links.
RECURSIVE Reachable(_, _)
Reachable(stage_info, S) ==
  LET N == S \cup {t \in DOMAIN stage_info.dic :
                    \E h \in S : \E k \in DOMAIN stage_info.dic[h].next :
                      stage_info.dic[h].next[k] = t}
  IN IF N = S THEN S ELSE Reachable(stage_info, N)

\* The tasks marked "head", and the tasks that are heads: marked "head", or
\* giving no part.
MarkedHeads(stage_info) ==
  {t \in DOMAIN stage_info.dic : stage_info.dic[t].part = "head"}
Heads(stage_info) ==
  {t \in DOMAIN stage_info.dic : stage_info.dic[t].part \in {"head", None}}

\* The names of the tasks flow c submitted in the stage it is in.
SubmittedNames(c) == {Fut(c, i).name : i \in DOMAIN flows[c].all_futures}

C19_StageBarrier ==
  [][\A c \in DOMAIN flows : c \in DOMAIN flows' =>
       LET fl == flows[c]
           next == flows'[c] IN
       /\ next.stage_idx \in {fl.stage_idx, fl.stage_idx + 1}
       /\ next.stage_idx # fl.stage_idx =>
            /\ \A i \in DOMAIN fl.all_futures :
                  fl.all_futures[i].state \in {"done", "raised"}
            /\ \A q \in DOMAIN task_queue : task_queue[q][1] # c
       /\ (fl.pc = "run_flow" /\ next.pc \in {"_run_task", "await"}) =>
            /\ fl.all_futures = <<>>
            /\ \A q \in DOMAIN task_queue : task_queue[q][1] # c
       /\ Len(next.all_futures) > Len(fl.all_futures) =>
            /\ fl.pc = "_run_task" /\ next.stage_idx = fl.stage_idx
            /\ \A i \in DOMAIN fl.all_futures : next.all_futures[i] = fl.all_futures[i]
    ]_vars

\* A stage that is not the last one has failed already (the future of its
\* head was awaited) and is still awaiting a future that is not resolved.
C19_Witness ==
  \E c \in Combs :
    LET fl == flows[c] IN
    /\ fl.pc = "await" /\ fl.stage_idx < Len(stage_list)
    /\ fl.stage_result = FAIL
    /\ fl.await_idx <= Len(fl.all_futures)
    /\ fl.all_futures[fl.await_idx].state \in {"pending", "running", "invoking"}

(***************************************************************************)
(* C20: no deadlock when the task pool is exhausted.                       *)
(***************************************************************************)
\* C20: whatever the size of the task pool and the number of combinations
\* that share it, every submitted future is resolved in the end and
\* FlowWeave.run is over, the pools shut down; it has returned its results
\* unless a flow raised.
C20_RunTerminates ==
  <>(/\ RunOver
     /\ task_queue = <<>> /\ flow_queue = <<>>
     /\ \A j \in Futures : Fut(j[1], j[2]).state \in {"done", "raised"}
     /\ (\A c \in Combs : flows[c].error = None) => run.pc = "returned")

\* Two combinations share the task pool in parallel mode; every worker
\* thread holds a work item, one of them a chained task blocked on its
\* predecessor, and more work items are waiting.
C20_Witness ==
  /\ parallel /\ all_count = 2
  /\ \A c \in Combs : flows[c].all_futures # <<>>
  /\ BusyWorkers = max_workers
  /\ task_queue # <<>>
  /\ \E j \in Futures :
       LET f == Fut(j[1], j[2]) IN
       /\ f.state = "running" /\ f.prev # 0
       /\ Fut(j[1], f.prev).state \notin {"done", "raised"}

(***************************************************************************)
(* C21: sequential and parallel mode give the same outcome.                *)
(***************************************************************************)
\* What a flow comes to, told from its description alone, with no thread and
\* no pool: the outcome of a task after its predecessor on the path (NoResult
\* for a future that raises).
TaskOutcome(task_dic, is_head, prev, option) ==
  LET class == TaskClasses[op_dic[task_dic.op]] IN
  IF ~is_head /\ prev = NoResult THEN NoResult
  ELSE IF class.ctor_raises THEN NoResult
  ELSE IF /\ ~is_head
          /\ \/ task_dic.do_only = "pre_success" /\ prev # SUCCESS
             \/ task_dic.do_only = "pre_fail" /\ prev # FAIL
       THEN IGNORE
  ELSE IF class.raises THEN FAIL
  ELSE CHOOSE r \in handler_results(op_dic[task_dic.op], option) : TRUE

\* The dispatch from task name on raises: a name met again on the path, a
\* task the stage does not hold, or an operation code op_dic does not hold.
RECURSIVE DispatchFails(_, _, _)
DispatchFails(stage_info, name, visited) ==
  \/ name \in visited
  \/ name \notin DOMAIN stage_info.dic
  \/ /\ name \notin visited /\ name \in DOMAIN stage_info.dic
     /\ \/ stage_info.dic[name].op \notin DOMAIN op_dic
        \/ \E k \in DOMAIN stage_info.dic[name].next :
             DispatchFails(stage_info, stage_info.dic[name].next[k],
                           visited \cup {name})

\* The outcomes of the tasks on the paths from task name on.
RECURSIVE PathOutcomes(_, _, _, _, _)
PathOutcomes(stage_info, name, is_head, prev, option) ==
  LET task_dic == stage_info.dic[name]
      outcome == TaskOutcome(task_dic, is_head, prev, option)
  IN {outcome} \cup UNION {PathOutcomes(stage_info, task_dic.next[k], FALSE,
                                        outcome, option) :
                             k \in DOMAIN task_dic.next}

\* The result of flow c from stage k on, flow_result being its result so
\* far; NoResult when run_flow raises.
RECURSIVE ExpectedFlowResult(_, _, _)
ExpectedFlowResult(c, k, flow_result) ==
  IF k > Len(stage_list) THEN flow_result
  ELSE IF flow_result = FAIL THEN FAIL
  ELSE LET stage_info == StageCatalog[stage_list[k]]
           option == _get_stage_global_option(comb_list[c], stage_list[k])
           heads == Heads(stage_info)
       IN IF \E h \in heads : DispatchFails(stage_info, h, {}) THEN NoResult
          ELSE IF \E h \in heads :
                    \E o \in PathOutcomes(stage_info, h, TRUE, NoResult, option) :
                      o \in {FAIL, NoResult}
               THEN FAIL
          ELSE ExpectedFlowResult(c, k + 1, flow_result)

ExpectedOutcome(c) ==
  IF show_log THEN NoResult ELSE ExpectedFlowResult(c, 1, SUCCESS)

\* No handler of the flow has a result left open by its class and options.
TimingFree ==
  \A k \in DOMAIN stage_list :
    \A t \in DOMAIN StageCatalog[stage_list[k]].dic :
      LET op == StageCatalog[stage_list[k]].dic[t].op IN
      op \in DOMAIN op_dic => op_dic[op] # "AnyTask"

\* C21: for handlers whose results do not depend on timing, the outcome of
\* FlowWeave.run is the same with parallel set and unset, whatever the
\* interleaving of the flows: the run raises exactly when some combination's
\* flow raises, and otherwise returns the list of the flows' results in the
\* order of the combinations, each result being what the flow description and
\* the combination alone determine.
C21_ParallelSameAsSequential ==
  (RunOver /\ TimingFree) =>
    IF \E c \in Combs : ExpectedOutcome(c) = NoResult
    THEN run.pc = "raised"
    ELSE /\ run.pc = "returned"
         /\ run.results = [c \in Combs |-> ExpectedOutcome(c)]

\* A parallel run with both flows running at once returned SUCCESS for the
\* first combination and FAIL for the second.
C21_Witness ==
  /\ parallel /\ cpu_count = 2 /\ run.pc = "returned"
  /\ run.results = <<SUCCESS, FAIL>>

(***************************************************************************)
(* C22: one submission per traversal path.                                 *)
(***************************************************************************)
\* The task names from the head to future i of flow c, along the
\* predecessor futures.
RECURSIVE PathSeq(_, _)
PathSeq(c, i) ==
  IF Fut(c, i).prev = 0 THEN <<Fut(c, i).name>>
  ELSE Append(PathSeq(c, Fut(c, i).prev), Fut(c, i).name)

\* The number of path prefixes that start at task name, and at the tasks of
\* links, in a stage without cycle.
RECURSIVE PathPrefixes(_, _)
RECURSIVE LinkPrefixes(_, _)
LinkPrefixes(stage_info, links) ==
  IF links = <<>> THEN 0
  ELSE PathPrefixes(stage_info, Head(links)) + LinkPrefixes(stage_info, Tail(links))

PathPrefixes(stage_info, name) ==
  1 + LinkPrefixes(stage_info, stage_info.dic[name].next)

\* The heads of a stage in the order of the stage.
HeadSeq(stage_info) ==
  SelectSeq(stage_info.order, LAMBDA t : t \in Heads(stage_info))

\* C22: in one stage run a task is submitted once for each path from a head
\* that reaches it, chained to the future of its predecessor on that path: a
\* future without predecessor is a head, a future with one is a link of its
\* predecessor's task, no two futures have the same path, and the stage awaits
\* as many futures as there are path prefixes from its heads; in the diamond
\* D is submitted and its handler invoked twice, after B and after C.
C22_OncePerPath ==
  \A c \in Combs :
    LET fl == flows[c] IN
    fl.pc \in {"_run_task", "await"} =>
      LET stage_info == StageCatalog[stage_list[fl.stage_idx]] IN
      /\ \A i \in DOMAIN fl.all_futures :
            LET f == Fut(c, i) IN
            /\ f.prev = 0 => f.name \in Heads(stage_info)
            /\ f.prev # 0 =>
                 /\ f.prev < i
                 /\ \E k \in DOMAIN stage_info.dic[Fut(c, f.prev).name].next :
                      stage_info.dic[Fut(c, f.prev).name].next[k] = f.name
            /\ \A j \in DOMAIN fl.all_futures : j # i => PathSeq(c, j) # PathSeq(c, i)
      /\ AtStageReturn(c) =>
            /\ Len(fl.all_futures) = LinkPrefixes(stage_info, HeadSeq(stage_info))
            /\ stage_list[fl.stage_idx] = "diamond" =>
                 /\ {Fut(c, Fut(c, i).prev).name :
                       i \in {i \in DOMAIN fl.all_futures : Fut(c, i).name = "D"}}
                      = {"B", "C"}
                 /\ Cardinality({i \in DOMAIN fl.all_futures :
                                   Fut(c, i).name = "D" /\ Fut(c, i).invoked}) = 2

\* The diamond stage is about to return: five futures were awaited, two of
\* them for D, both handlers invoked and returned.
C22_Witness ==
  \E c \in Combs :
    /\ AtStageReturn(c) /\ stage_list[flows[c].stage_idx] = "diamond"
    /\ Len(flows[c].all_futures) = 5
    /\ Cardinality({i \in DOMAIN flows[c].all_futures :
                      /\ Fut(c, i).name = "D" /\ Fut(c, i).invoked
                      /\ Fut(c, i).state = "done"}) = 2

(***************************************************************************)
(* C23: an exception of a predecessor's future.                            *)
(***************************************************************************)
\* Some future of the stage flow c is in raised.
HasRaised(c) ==
  \E i \in DOMAIN flows[c].all_futures : Fut(c, i).state = "raised"

\* A task chained after a future that raised never enters TaskRunner.start
\* and, once its work item ran, its own future raised.
RaisePropagates ==
  \A j \in Futures :
    LET f == Fut(j[1], j[2]) IN
    (f.prev # 0 /\ Fut(j[1], f.prev).state = "raised") =>
      /\ ~f.entered /\ ~f.invoked
      /\ f.state \in {"pending", "running", "raised"}
      /\ f.record = NoRecord

\* A stage with a future that raised is not left by an exception, and its
\* result when every future was awaited is FAIL.
RaiseFailsStage ==
  \A c \in Combs :
    HasRaised(c) =>
      /\ flows[c].pc \in {"_run_task", "await"}
      /\ flows[c].error = None
      /\ AtStageReturn(c) =>
           /\ flows[c].stage_result = FAIL
           /\ \A i \in DOMAIN flows[c].all_futures :
                (Fut(c, i).prev # 0 /\ Fut(c, Fut(c, i).prev).state = "raised")
                  => Fut(c, i).state = "raised"

\* The step that ends a stage with a future that raised is the return of
\* _run_stage to run_flow, with FAIL.
RaiseStageReturns ==
  \A c \in DOMAIN flows :
    (HasRaised(c) /\ c \in DOMAIN flows' /\ flows'[c].all_futures = <<>>) =>
      /\ flows'[c].pc = "run_flow"
      /\ flows'[c].error = None
      /\ flows'[c].log[Len(flows'[c].log)].executed
      /\ flows'[c].log[Len(flows'[c].log)].result = FAIL

\* C23: when a predecessor's future raises, every task chained after it on
\* that path never enters TaskRunner.start (its handler is neither constructed
\* nor invoked) and its own future raises as well, whatever its gating mode;
\* the stage result is then FAIL and the stage returns normally to run_flow.
C23_RaisePropagatesDownPath ==
  /\ [](RaisePropagates /\ RaiseFailsStage)
  /\ [][RaiseStageReturns]_vars

\* The stage badchain is about to return: the head's future raised, and so
\* did the futures of its pre_success, pre_fail and ungated successors and of
\* the successor's successor, none of which entered TaskRunner.start.
C23_Witness ==
  \E c \in Combs :
    /\ AtStageReturn(c) /\ stage_list[flows[c].stage_idx] = "badchain"
    /\ Len(flows[c].all_futures) = 5
    /\ \A i \in DOMAIN flows[c].all_futures :
         /\ Fut(c, i).state = "raised"
         /\ Fut(c, i).prev # 0 => ~Fut(c, i).entered
    /\ {Fut(c, i).do_only : i \in DOMAIN flows[c].all_futures}
         = {None, "pre_success", "pre_fail"}
    /\ flows[c].stage_result = FAIL

(***************************************************************************)
(* C24: quiescence at exit.                                                *)
(***************************************************************************)
\* No work item of task_executor is queued, held by a worker or inside a
\* handler: every future submitted is resolved.
TaskPoolQuiet ==
  /\ task_queue = <<>>
  /\ BusyWorkers = 0
  /\ \A j \in Futures : Resolved(Fut(j[1], j[2]))

\* No run_flow call of flow_executor is queued or running.
FlowPoolQuiet ==
  /\ flow_queue = <<>>
  /\ \A c \in Combs : flows[c].pc # "queued" /\ ~FlowActive(c)

\* C24: whenever FlowWeave.run returned or raised, also after a dispatch
\* error in the middle of a stage, every task and every flow submitted to
\* either pool has finished: no handler is running or pending, and the tasks
\* submitted before the error ran to completion.
C24_QuiescentAtExit ==
  RunOver =>
    /\ TaskPoolQuiet
    /\ FlowPoolQuiet
    /\ \A c \in Combs :
         flows[c].error \in DispatchErrors =>
           \A i \in DOMAIN flows[c].all_futures :
             Fut(c, i).state = "done" /\ Fut(c, i).entered

\* FlowWeave.run raised after a cycle error that interrupted the dispatch of a
\* stage; the two tasks submitted before the error were run by the pool, their
\* handlers invoked and returned.
C24_Witness ==
  /\ run.pc = "raised"
  /\ \E c \in Combs :
       /\ flows[c].error = "Cycle"
       /\ Len(flows[c].all_futures) = 2
       /\ \A i \in DOMAIN flows[c].all_futures :
            Fut(c, i).state = "done" /\ Fut(c, i).invoked


====
